---------------------------- MODULE Spec2Model ----------------------------
(***************************************************************************)
(* Model of the cryptocurrency collection job: run_data_collection_job     *)
(* and insert_crypto_data (src/script.py), PostgresManager                 *)
(* (src/utils/posgres_pool.py) and CoinMarketCapAPI                        *)
(* (src/utils/coin_market.py).                                             *)
(*                                                                         *)
(* One job run is a sequence of steps, one action per statement or call of *)
(* the source.  The database server (the table, the open transaction) and  *)
(* the psycopg2 pool (idle and checked-out connections) are part of the    *)
(* state.  What the environment decides (environment variables, the        *)
(* listings response, a statement or a cursor failing) is drawn with \E.   *)
(***************************************************************************)
EXTENDS Integers, Sequences, FiniteSets, TLC

(***************************************************************************)
(* Bounds of the model.                                                    *)
(***************************************************************************)
\* Longest `data` array of a listings response.
MaxEntries == 2
\* Number of job runs (HTTP triggers) in one behaviour.
MaxRuns == 3
MaxInvocations == 2

(***************************************************************************)
(* Program constants.                                                      *)
(***************************************************************************)
min_connections == 1
max_connections == 10

(***************************************************************************)
(* Python values.  A value is None, a string (a sequence of characters) or *)
(* a number; bool(v) is Truthy(v).                                         *)
(***************************************************************************)
PyNone == <<"None">>
PyStr(s) == <<"str", s>>
PyNum(n) == <<"num", n>>

IsStr(v) == v[1] = "str"

Truthy(v) ==
    CASE v[1] = "None" -> FALSE
      [] v[1] = "str" -> v[2] # <<>>
      [] v[1] = "num" -> v[2] # 0

\* all([...]) of a sequence of values.
All(vs) == \A i \in 1..Len(vs) : Truthy(vs[i])

\* str.replace(old, new) on a sequence of characters: old is one character,
\* new a (possibly empty) sequence of characters.
RECURSIVE Replace(_, _, _)
Replace(s, old, new) ==
    IF s = <<>> THEN <<>>
    ELSE (IF Head(s) = old THEN new ELSE <<Head(s)>>) \o Replace(Tail(s), old, new)

\* last_updated_str.replace('T', ' ').replace('Z', '')
Normalize(s) == Replace(Replace(s, "T", <<" ">>), "Z", <<>>)

(***************************************************************************)
(* Listing entries.  An entry of the `data` array is a dict or not         *)
(* (dict = FALSE: null, a string, a number).  Of a dict, name and symbol   *)
(* are the values of item.get(...) (None when the key is absent), quote    *)
(* says whether item["quote"]["USD"] can be reached ("dict": yes, or the   *)
(* keys are absent and the {} defaults apply; "null": one of them is       *)
(* null), and price and last_updated are the values under quote.USD.       *)
(* cmc_rank, volume_24h and market_cap are passed through unread; price    *)
(* stands for the non-key columns.                                         *)
(***************************************************************************)
BTC == PyStr(<<"B", "T", "C">>)
ETH == PyStr(<<"E", "T", "H">>)
TsZulu == PyStr(<<"1", "T", "2", "Z">>)
TsPlain == PyStr(<<"1", " ", "2">>)

Item(d, n, s, q, p, t) ==
    [dict |-> d, name |-> n, symbol |-> s, quote |-> q, price |-> p, last_updated |-> t]

ItemBTC == Item(TRUE, BTC, BTC, "dict", PyNum(100), TsZulu)
\* The same (name, symbol, normalized last_updated) as ItemBTC, another price.
ItemBTC2 == Item(TRUE, BTC, BTC, "dict", PyNum(200), TsPlain)
ItemETH == Item(TRUE, ETH, ETH, "dict", PyNum(100), TsZulu)
ItemNoPrice == Item(TRUE, ETH, ETH, "dict", PyNone, TsZulu)
ItemZeroPrice == Item(TRUE, ETH, ETH, "dict", PyNum(0), TsZulu)
ItemNullQuote == Item(TRUE, BTC, BTC, "null", PyNone, PyNone)
ItemNotDict == Item(FALSE, PyNone, PyNone, "null", PyNone, PyNone)

Items ==
    {ItemBTC, ItemBTC2, ItemETH, ItemNoPrice, ItemZeroPrice, ItemNullQuote, ItemNotDict}

SeqsUpTo(S, n) == UNION {[1..k -> S] : k \in 0..n}

(***************************************************************************)
(* The listings response of CoinMarketCapAPI._make_request: the parsed     *)
(* body, or {"error": message} on a transport failure.  data is "absent"   *)
(* (no `data` key), "null" or "list".                                      *)
(***************************************************************************)
FetchErrors == {"503 Server Error"}

Response(e, k, d) == [error |-> e, data |-> k, items |-> d]
NoResponse == Response("", "absent", <<>>)

Responses ==
    {Response(e, "absent", <<>>) : e \in FetchErrors}
        \cup {Response("", "absent", <<>>), Response("", "null", <<>>)}
        \cup {Response("", "list", d) : d \in SeqsUpTo(Items, MaxEntries)}

\* "error" in api_response
HasError(r) == r.error # ""

(***************************************************************************)
(* Exceptions: a type and str(e).                                          *)
(***************************************************************************)
Exc(t, m) == [type |-> t, msg |-> m]
NoExc == Exc("", "")

\* `except Exception` catches everything but SystemExit (a BaseException).
IsException(e) == e # NoExc /\ e.type # "SystemExit"

(***************************************************************************)
(* insert_crypto_data, the loop over the entries (lines 42-60).            *)
(***************************************************************************)
Row(n, s, t, p) == [name |-> n, symbol |-> s, last_updated |-> t, price |-> p]
RowKey(r) == <<r.name, r.symbol, r.last_updated>>

\* One iteration of the loop: "append" (with the tuple), "skip" (the warning
\* of line 57), "error" (the except of line 58, which logs and continues) or
\* "raise" (the except handler itself raises: item.get on an entry that is
\* not a dict).
ProcessItem(item) ==
    IF ~item.dict
    THEN [out |-> "raise", row |-> <<>>]
    ELSE IF item.quote = "null"
    THEN [out |-> "error", row |-> <<>>]
    ELSE IF All(<<item.name, item.symbol, item.price, item.last_updated>>)
    THEN IF IsStr(item.last_updated)
         THEN [out |-> "append",
               row |-> <<Row(item.name, item.symbol,
                             PyStr(Normalize(item.last_updated[2])), item.price)>>]
         ELSE [out |-> "error", row |-> <<>>]
    ELSE [out |-> "skip", row |-> <<>>]

\* The whole loop: the list built, and whether an exception left the loop.
RECURSIVE ProcessItems(_)
ProcessItems(items) ==
    IF items = <<>> THEN [raised |-> FALSE, data |-> <<>>]
    ELSE LET one == ProcessItem(Head(items))
         IN IF one.out = "raise" THEN [raised |-> TRUE, data |-> <<>>]
            ELSE LET rest == ProcessItems(Tail(items))
                 IN [raised |-> rest.raised,
                     data |-> IF rest.raised THEN <<>> ELSE one.row \o rest.data]

\* Mutant: a response that yields no record is treated as an error.
CollectRecordsEmptyFails(r) ==
    LET res == ProcessItems(IF r.data = "list" THEN r.items ELSE <<>>)
    IN IF res.raised \/ res.data = <<>>
       THEN [raised |-> TRUE, data |-> <<>>, exc |-> Exc("ValueError", "no data")]
       ELSE [raised |-> FALSE, data |-> res.data, exc |-> NoExc]

\* for item in api_response.get("data", []): iterating None raises TypeError.
CollectRecords(r) ==
    IF r.data = "null" THEN [raised |-> TRUE, data |-> <<>>,
                             exc |-> Exc("TypeError", "'NoneType' object is not iterable")]
    ELSE LET res == ProcessItems(IF r.data = "list" THEN r.items ELSE <<>>)
         IN [raised |-> res.raised, data |-> res.data,
             exc |-> IF res.raised
                     THEN Exc("AttributeError", "object has no attribute 'get'")
                     ELSE NoExc]

(***************************************************************************)
(* The psycopg2 ThreadedConnectionPool behind PostgresManager: the idle    *)
(* connections and the checked-out ones.  NoPool is connection_pool=None.  *)
(***************************************************************************)
NoPool == [live |-> FALSE, idle |-> {}, used |-> {}]

\* pool.ThreadedConnectionPool(min_connections, max_connections, ...): opens
\* min_connections connections.
NewPool == [live |-> TRUE, idle |-> 1..min_connections, used |-> {}]

\* Mutant: getconn() opens a new connection whatever the number checked out.
GetConnUnbounded(p) ==
    IF p.idle # {}
    THEN LET c == CHOOSE x \in p.idle : \A y \in p.idle : y <= x
         IN [ok |-> TRUE, conn |-> c,
             pool |-> [p EXCEPT !.idle = @ \ {c}, !.used = @ \cup {c}]]
    ELSE LET c == CHOOSE x \in 1..(max_connections + 1) : x \notin p.used
         IN [ok |-> TRUE, conn |-> c, pool |-> [p EXCEPT !.used = @ \cup {c}]]

\* getconn(): an idle connection if there is one, a new one while fewer than
\* max_connections are out, and PoolError (a psycopg2.Error) otherwise.
GetConn(p) ==
    IF p.idle # {}
    THEN LET c == CHOOSE x \in p.idle : \A y \in p.idle : y <= x
         IN [ok |-> TRUE, conn |-> c,
             pool |-> [p EXCEPT !.idle = @ \ {c}, !.used = @ \cup {c}]]
    ELSE IF Cardinality(p.used) >= max_connections
    THEN [ok |-> FALSE, conn |-> 0, pool |-> p]
    ELSE LET c == CHOOSE x \in 1..max_connections : x \notin p.used
         IN [ok |-> TRUE, conn |-> c, pool |-> [p EXCEPT !.used = @ \cup {c}]]

\* putconn(c): c leaves the checked-out set; it is kept idle while fewer than
\* min_connections are idle and closed otherwise.
\* (A connection that is not checked out is refused with PoolError and the
\* pool is left as it is.)
PutConn(p, c) ==
    IF c \notin p.used THEN p
    ELSE [p EXCEPT !.used = @ \ {c},
                   !.idle = IF Cardinality(@) < min_connections THEN @ \cup {c} ELSE @]

\* Mutant: closeall() closes the idle connections only; the pool is dropped
\* with its checked-out connections still open.
ClosePoolIdleOnly(p) == IF p.live THEN [live |-> FALSE, idle |-> {}, used |-> p.used] ELSE p

\* close_pool (lines 135-138): closeall() closes every connection of the
\* pool, idle or checked out, and connection_pool becomes None.
ClosePool(p) == IF p.live THEN NoPool ELSE p

\* Connections of a pool that are open on the server.
OpenConns(p) == p.idle \cup p.used

(***************************************************************************)
(* The database server: the committed table and the open transaction of    *)
(* the connection in use.                                                  *)
(***************************************************************************)
NoTxn == [ddl |-> FALSE, rows |-> <<>>]

HasKey(rows, r) == \E i \in 1..Len(rows) : RowKey(rows[i]) = RowKey(r)

\* Mutant: a plain INSERT into a table without the unique key.
InsertAlways(tbl, pending, r) == Append(pending, r)

\* INSERT ... ON CONFLICT (name, symbol, last_updated) DO NOTHING, run in a
\* transaction that sees the committed rows tbl and its own pending rows.
InsertOnConflictDoNothing(tbl, pending, r) ==
    IF HasKey(tbl \o pending, r) THEN pending ELSE Append(pending, r)

\* Mutant: the connection is in autocommit mode, each statement persists.
ExecInsertAutocommit(tbl, t, r) ==
    [table |-> tbl \o InsertOnConflictDoNothing(tbl, <<>>, r), txn |-> t]

\* Mutant: ON CONFLICT ... DO UPDATE: a row whose key is in the table
\* overwrites the stored one.
ExecInsertDoUpdate(tbl, t, r) ==
    [table |-> [i \in 1..Len(tbl) |-> IF RowKey(tbl[i]) = RowKey(r) THEN r ELSE tbl[i]],
     txn |-> [t EXCEPT !.rows = InsertOnConflictDoNothing(tbl, @, r)]]

\* cursor.execute(insert_query, params) on a connection whose transaction
\* is t: the row joins the transaction, the table is left as it is.
ExecInsert(tbl, t, r) ==
    [table |-> tbl, txn |-> [t EXCEPT !.rows = InsertOnConflictDoNothing(tbl, @, r)]]

\* connection.commit(): the pending rows become part of the table.
CommitRows(tbl, pending) == tbl \o pending

(***************************************************************************)
(* The result of run_data_collection_job.                                  *)
(***************************************************************************)
Result(c, s, m) == [code |-> c, body |-> [status |-> s, message |-> m]]
NoResult == Result(0, "", "")
\* Mutant: the fall-through return reports an error.
SuccessResultAsError == Result(500, "error", "Data collection job completed successfully")

\* line 148
SuccessResult == Result(200, "success", "Data collection job completed successfully")
\* lines 121 and 134
ErrorResult(m) == Result(500, "error", m)

(***************************************************************************)
(* State.                                                                  *)
(***************************************************************************)
VARIABLES
    pc,               \* position of the job run
    runs,             \* job runs started
    api_key,          \* COINMARKETCAP_API_KEY is set and not empty
    db_env,           \* DB_NAME, DB_USER and DB_PASSWORD are set
    job_status,       \* run_data_collection_job's job_status
    result,           \* the (body, status code) the run returns
    exc,              \* the exception that is propagating
    outer,            \* the pool of the manager of run_data_collection_job
    inner,            \* the pool of the manager of insert_crypto_data
    connection,       \* execute_query's / execute_batch's connection (0: None)
    tableExists,      \* cryptocurrency_data exists
    table,            \* its committed rows, in insertion order
    txn,              \* the open transaction of the connection in use
    api_response,     \* the last listings response
    data_to_insert,   \* insert_crypto_data's list
    pos,              \* execute_batch: index of the next params
    records_inserted, \* insert_crypto_data's count
    events,           \* history: the steps of this run, in order
    summaries,        \* history: job_status of each closing summary of this run
    failure,          \* history: the first failure of this run
    batchStart,       \* history: the table when execute_batch began
    batchLog,         \* history: the statements and commits of execute_batch
    ingestedOk,       \* history: api_response was ingested without error
    prevTable,        \* history: the table when that ingest returned
    repeat,           \* history: this run fetched the response ingested last
    mgr,              \* calls on one manager: its pool
    outstanding,      \* calls on one manager: connections acquired, not released
    lastCall,         \* calls on one manager: how the last call ended
    pools,            \* overlapping invocations: the pool of each manager
    ipc,              \* overlapping invocations: position of each invocation
    iconn,            \* overlapping invocations: the connection each one holds
    actor             \* overlapping invocations: who took the last step

jobState ==
    <<pc, runs, api_key, db_env, job_status, result, exc, outer, inner, connection,
      tableExists, table, txn, api_response, data_to_insert, pos, records_inserted,
      events, summaries, failure, batchStart, batchLog, ingestedOk, prevTable, repeat>>

mgrVars == <<mgr, outstanding, lastCall>>
overlapVars == <<pools, ipc, iconn, actor>>
otherVars == <<mgrVars, overlapVars>>
vars == <<jobState, mgrVars, overlapVars>>

\* Job invocations that overlap, and the managers each one creates: the one
\* of run_data_collection_job and the one of insert_crypto_data.
Invocations == 1..MaxInvocations
Scopes == {"outer", "inner"}
PoolIds == Invocations \X Scopes
NoConn == [pool |-> <<0, "">>, conn |-> 0]

jobVars == <<job_status, result, exc>>
poolVars == <<outer, inner, connection>>
dbVars == <<tableExists, table, txn>>
envVars == <<runs, api_key, db_env>>
ingestVars == <<data_to_insert, pos, records_inserted>>
batchHist == <<batchStart, batchLog>>
ingestHist == <<ingestedOk, prevTable, repeat>>

Init ==
    /\ pc = "idle"
    /\ runs = 0
    /\ api_key = TRUE
    /\ db_env = TRUE
    /\ job_status = "SUCCESS"
    /\ result = NoResult
    /\ exc = NoExc
    /\ outer = NoPool
    /\ inner = NoPool
    /\ connection = 0
    /\ tableExists = FALSE
    /\ table = <<>>
    /\ txn = NoTxn
    /\ api_response = NoResponse
    /\ data_to_insert = <<>>
    /\ pos = 1
    /\ records_inserted = 0
    /\ events = <<>>
    /\ summaries = <<>>
    /\ failure = NoExc
    /\ batchStart = <<>>
    /\ batchLog = <<>>
    /\ ingestedOk = FALSE
    /\ prevTable = <<>>
    /\ repeat = FALSE
    /\ mgr = NoPool
    /\ outstanding = 0
    /\ lastCall = "none"
    /\ pools = [p \in PoolIds |-> NoPool]
    /\ ipc = [i \in Invocations |-> "idle"]
    /\ iconn = [i \in Invocations |-> NoConn]
    /\ actor = 0

Log(e) == events' = Append(events, e)

\* raise e
Raise(e) ==
    /\ exc' = e
    /\ failure' = IF failure = NoExc THEN e ELSE failure

(***************************************************************************)
(* run_data_collection_job, lines 80-96.                                   *)
(***************************************************************************)
\* An HTTP trigger calls run_data_collection_job (lines 159, 81).
Start ==
    /\ pc \in {"idle", "done"}
    /\ runs < MaxRuns
    /\ runs' = runs + 1
    /\ \E k \in BOOLEAN, d \in BOOLEAN : api_key' = k /\ db_env' = d
    /\ job_status' = "SUCCESS"
    /\ result' = NoResult
    /\ exc' = NoExc
    /\ outer' = NoPool
    /\ inner' = NoPool
    /\ connection' = 0
    /\ txn' = NoTxn
    /\ data_to_insert' = <<>>
    /\ pos' = 1
    /\ records_inserted' = 0
    /\ events' = <<>>
    /\ summaries' = <<>>
    /\ failure' = NoExc
    /\ batchStart' = <<>>
    /\ batchLog' = <<>>
    /\ repeat' = FALSE
    /\ pc' = "check_key"
    /\ UNCHANGED <<otherVars, tableExists, table, api_response, ingestedOk, prevTable>>

\* Mutant: the key is read but its absence is not acted on.
CheckKeyIgnored ==
    /\ pc = "check_key"
    /\ pc' = "outer_enter"
    /\ UNCHANGED <<otherVars, envVars, jobVars, failure, poolVars, dbVars, api_response,
                   ingestVars, events, summaries, batchHist, ingestHist>>

\* lines 87-92: sys.exit(1) raises SystemExit when the key is missing.
CheckKey ==
    /\ pc = "check_key"
    /\ IF api_key
       THEN /\ pc' = "outer_enter"
            /\ UNCHANGED <<exc, failure>>
       ELSE /\ Raise(Exc("SystemExit", "1"))
            /\ pc' = "except"
    /\ UNCHANGED <<otherVars, envVars, job_status, result, poolVars, dbVars, api_response,
                   ingestVars, events, summaries, batchHist, ingestHist>>

\* line 95, `with PostgresManager() as db_manager`: __init__ (lines 25-38)
\* raises ValueError without the database settings; __enter__ (line 141)
\* calls initialize_pool (lines 41-54), which raises ConnectionError when
\* the pool cannot connect.  An exception here skips __exit__.
OuterEnter ==
    /\ pc = "outer_enter"
    /\ \/ /\ ~db_env
          /\ Raise(Exc("ValueError", "Database name, user, and password must be provided."))
          /\ pc' = "except"
          /\ UNCHANGED <<outer, events>>
       \/ /\ db_env
          /\ outer' = NewPool
          /\ Log("pool_init")
          /\ pc' = "outer_init"
          /\ UNCHANGED <<exc, failure>>
       \/ /\ db_env
          /\ Raise(Exc("ConnectionError", "Failed to initialize connection pool"))
          /\ pc' = "except"
          /\ UNCHANGED <<outer, events>>
    /\ UNCHANGED <<otherVars, envVars, job_status, result, inner, connection, dbVars, api_response,
                   ingestVars, summaries, batchHist, ingestHist>>

\* Mutant: the job fetches right after connecting, without the CREATE TABLE.
OuterInitSkipsTable ==
    /\ pc = "outer_init"
    /\ outer' = IF outer.live THEN outer ELSE NewPool
    /\ pc' = "fetch"
    /\ UNCHANGED <<otherVars, envVars, jobVars, inner, connection, dbVars, api_response, ingestVars,
                   events, summaries, failure, batchHist, ingestHist>>

\* line 96, db_manager.initialize_pool(): the pool exists, nothing happens
\* (line 41).
OuterInit ==
    /\ pc = "outer_init"
    /\ outer' = IF outer.live THEN outer ELSE NewPool
    /\ pc' = "q_get"
    /\ UNCHANGED <<otherVars, envVars, jobVars, inner, connection, dbVars, api_response, ingestVars,
                   events, summaries, failure, batchHist, ingestHist>>

(***************************************************************************)
(* PostgresManager.get_connection / release_connection, lines 56-76.       *)
(***************************************************************************)
\* lines 61-62: the pool is created on first use.
Ensured(p) == IF p.live THEN p ELSE NewPool

\* Mutant: release_connection leaves the connection checked out.
ReleaseConnectionNoop(p, c) == p

\* release_connection (lines 75-76): putconn unless there is no pool.
ReleaseConnection(p, c) == IF p.live THEN PutConn(p, c) ELSE p

ConnectionFailed == Exc("ConnectionError", "Failed to get connection from pool")

(***************************************************************************)
(* PostgresManager.execute_query (lines 88-112) of the CREATE TABLE IF NOT *)
(* EXISTS statement of lines 99-112.                                       *)
(***************************************************************************)
\* line 90, get_connection (lines 61-69): getconn, then connection.cursor().
\* When cursor() raises, get_connection raises ConnectionError and the
\* caller's `connection` is still None.
QGetConn ==
    /\ pc = "q_get"
    /\ LET g == GetConn(Ensured(outer))
       IN IF ~g.ok
          THEN /\ outer' = g.pool
               /\ Raise(ConnectionFailed)
               /\ UNCHANGED <<connection, events>>
               /\ pc' = "q_release"
          ELSE /\ outer' = g.pool
               /\ Log("getconn")
               /\ \/ /\ connection' = g.conn
                     /\ pc' = "q_exec"
                     /\ UNCHANGED <<exc, failure>>
                  \/ /\ Raise(ConnectionFailed)
                     /\ pc' = "q_release"
                     /\ UNCHANGED connection
    /\ UNCHANGED <<otherVars, envVars, job_status, result, inner, dbVars, api_response, ingestVars,
                   summaries, batchHist, ingestHist>>

\* Mutant: the driver's error leaves execute_query as it is, without the
\* rollback and without the DatabaseError wrapper.
QExecuteUnwrapped ==
    /\ pc = "q_exec"
    /\ \/ /\ txn' = [txn EXCEPT !.ddl = TRUE]
          /\ Log("execute_ddl")
          /\ pc' = "q_commit"
          /\ UNCHANGED <<exc, failure>>
       \/ /\ Log("execute_ddl")
          /\ Raise(Exc("ProgrammingError", "syntax error"))
          /\ pc' = "q_release"
          /\ UNCHANGED txn
    /\ UNCHANGED <<otherVars, envVars, job_status, result, poolVars, tableExists, table, api_response,
                   ingestVars, summaries, batchHist, ingestHist>>

\* line 91, cursor.execute(query, params); on psycopg2.Error lines 106-109:
\* rollback and raise DatabaseError.
QExecute ==
    /\ pc = "q_exec"
    /\ \/ /\ txn' = [txn EXCEPT !.ddl = TRUE]
          /\ Log("execute_ddl")
          /\ pc' = "q_commit"
          /\ UNCHANGED <<exc, failure>>
       \/ /\ txn' = NoTxn
          /\ events' = events \o <<"execute_ddl", "rollback">>
          /\ Raise(Exc("DatabaseError", "Query execution failed"))
          /\ pc' = "q_release"
    /\ UNCHANGED <<otherVars, envVars, job_status, result, poolVars, tableExists, table, api_response,
                   ingestVars, summaries, batchHist, ingestHist>>

\* line 103, connection.commit() (the statement is no SELECT); on
\* psycopg2.Error lines 106-109.
QCommit ==
    /\ pc = "q_commit"
    /\ \/ /\ tableExists' = (tableExists \/ txn.ddl)
          /\ table' = CommitRows(table, txn.rows)
          /\ Log("commit")
          /\ UNCHANGED <<exc, failure>>
       \/ /\ events' = events \o <<"rollback">>
          /\ Raise(Exc("DatabaseError", "Query execution failed"))
          /\ UNCHANGED <<tableExists, table>>
    /\ txn' = NoTxn
    /\ pc' = "q_release"
    /\ UNCHANGED <<otherVars, envVars, job_status, result, poolVars, api_response, ingestVars,
                   summaries, batchHist, ingestHist>>

\* lines 110-112, the finally: release_connection when connection is set.
\* putconn rolls back what the connection left open.
QRelease ==
    /\ pc = "q_release"
    /\ IF connection # 0
       THEN /\ outer' = ReleaseConnection(outer, connection)
            /\ Log("putconn")
            /\ txn' = NoTxn
       ELSE UNCHANGED <<outer, events, txn>>
    /\ connection' = 0
    /\ pc' = IF exc # NoExc THEN "outer_exit" ELSE "fetch"
    /\ UNCHANGED <<otherVars, envVars, jobVars, inner, tableExists, table, api_response, ingestVars,
                   summaries, failure, batchHist, ingestHist>>

(***************************************************************************)
(* run_data_collection_job, lines 115-125, and insert_crypto_data.         *)
(***************************************************************************)
\* line 116, client.get_latest_listings(): one GET; a transport failure
\* comes back as {"error": message} (coin_market.py lines 29-34).
Fetch ==
    /\ pc = "fetch"
    /\ \E r \in Responses :
          /\ api_response' = r
          /\ repeat' = (ingestedOk /\ r = api_response)
          /\ ingestedOk' = (ingestedOk /\ r = api_response)
    /\ Log("fetch")
    /\ pc' = "check_error"
    /\ UNCHANGED <<otherVars, envVars, jobVars, poolVars, dbVars, ingestVars, summaries, failure,
                   batchHist, prevTable>>

\* lines 118-121: an error response fails the job with status 500.
CheckError ==
    /\ pc = "check_error"
    /\ IF HasError(api_response)
       THEN /\ job_status' = "FAILED"
            /\ result' = ErrorResult(api_response.error)
            /\ failure' = Exc("FetchError", api_response.error)
            /\ pc' = "outer_exit"
       ELSE /\ pc' = "collect"
            /\ UNCHANGED <<job_status, result, failure>>
    /\ UNCHANGED <<otherVars, envVars, exc, poolVars, dbVars, api_response, ingestVars, events,
                   summaries, batchHist, ingestHist>>

\* Mutant: the test of line 62 is missing, an empty list is batched too.
CollectAlwaysBatches ==
    /\ pc = "collect"
    /\ LET c == CollectRecords(api_response)
       IN IF c.raised
          THEN /\ Raise(c.exc)
               /\ pc' = "outer_exit"
               /\ UNCHANGED data_to_insert
          ELSE /\ data_to_insert' = c.data
               /\ pc' = "inner_enter"
               /\ UNCHANGED <<exc, failure>>
    /\ records_inserted' = 0
    /\ pos' = 1
    /\ UNCHANGED <<otherVars, envVars, job_status, result, poolVars, dbVars, api_response, events,
                   summaries, batchHist, ingestHist>>

\* insert_crypto_data lines 40-62 and 76-77: the loop builds data_to_insert;
\* an exception leaving the loop leaves insert_crypto_data.
Collect ==
    /\ pc = "collect"
    /\ LET c == CollectRecords(api_response)
       IN IF c.raised
          THEN /\ Raise(c.exc)
               /\ pc' = "outer_exit"
               /\ UNCHANGED data_to_insert
          ELSE /\ data_to_insert' = c.data
               /\ pc' = IF c.data # <<>> THEN "inner_enter" ELSE "ingest_return"
               /\ UNCHANGED <<exc, failure>>
    /\ records_inserted' = 0
    /\ pos' = 1
    /\ UNCHANGED <<otherVars, envVars, job_status, result, poolVars, dbVars, api_response, events,
                   summaries, batchHist, ingestHist>>

(***************************************************************************)
(* insert_crypto_data lines 68-75: `with PostgresManager() as db_manager`  *)
(* around db_manager.execute_batch(insert_query, data_to_insert).          *)
(***************************************************************************)
\* line 69: a second manager with a pool of its own (lines 25-38, 141).
InnerEnter ==
    /\ pc = "inner_enter"
    /\ IF ~db_env
       THEN /\ Raise(Exc("ValueError", "Database name, user, and password must be provided."))
            /\ pc' = "outer_exit"
            /\ UNCHANGED <<inner, events>>
       ELSE \/ /\ inner' = NewPool
               /\ Log("pool_init")
               /\ pc' = "b_get"
               /\ UNCHANGED <<exc, failure>>
            \/ /\ Raise(Exc("ConnectionError", "Failed to initialize connection pool"))
               /\ pc' = "outer_exit"
               /\ UNCHANGED <<inner, events>>
    /\ UNCHANGED <<otherVars, envVars, job_status, result, outer, connection, dbVars, api_response,
                   ingestVars, summaries, batchHist, ingestHist>>

\* execute_batch line 120, get_connection (lines 61-69).
BGetConn ==
    /\ pc = "b_get"
    /\ batchStart' = table
    /\ batchLog' = <<>>
    /\ pos' = 1
    /\ LET g == GetConn(Ensured(inner))
       IN IF ~g.ok
          THEN /\ inner' = g.pool
               /\ Raise(ConnectionFailed)
               /\ Log("execute_batch")
               /\ UNCHANGED connection
               /\ pc' = "b_release"
          ELSE /\ inner' = g.pool
               /\ events' = events \o <<"execute_batch", "getconn">>
               /\ \/ /\ connection' = g.conn
                     /\ pc' = "b_exec"
                     /\ UNCHANGED <<exc, failure>>
                  \/ /\ Raise(ConnectionFailed)
                     /\ pc' = "b_release"
                     /\ UNCHANGED connection
    /\ UNCHANGED <<otherVars, envVars, job_status, result, outer, dbVars, api_response,
                   data_to_insert, records_inserted, summaries, ingestHist>>

\* lines 122-123, one cursor.execute(query, params) of the loop: the insert
\* joins the transaction, or the statement raises psycopg2.Error (lines
\* 126-129: rollback, DatabaseError), or it raises something else (only the
\* finally runs).  After the last params the loop ends.
BExecute ==
    /\ pc = "b_exec"
    /\ IF pos > Len(data_to_insert)
       THEN /\ pc' = "b_commit"
            /\ UNCHANGED <<table, txn, pos, events, batchLog, exc, failure>>
       ELSE \/ /\ tableExists
               /\ LET e == ExecInsert(table, txn, data_to_insert[pos])
                  IN table' = e.table /\ txn' = e.txn
               /\ pos' = pos + 1
               /\ Log("execute_insert")
               /\ batchLog' = Append(batchLog, "execute")
               /\ pc' = "b_exec"
               /\ UNCHANGED <<exc, failure>>
            \/ /\ txn' = NoTxn
               /\ events' = events \o <<"execute_insert", "rollback">>
               /\ batchLog' = batchLog \o <<"failed", "rollback">>
               /\ Raise(Exc("DatabaseError", "Batch execution failed"))
               /\ pc' = "b_release"
               /\ UNCHANGED <<table, pos>>
            \/ /\ Log("execute_insert")
               /\ batchLog' = Append(batchLog, "failed")
               /\ Raise(Exc("TypeError", "not all arguments converted"))
               /\ pc' = "b_release"
               /\ UNCHANGED <<table, txn, pos>>
    /\ UNCHANGED <<otherVars, envVars, job_status, result, poolVars, tableExists, api_response,
                   data_to_insert, records_inserted, summaries, batchStart, ingestHist>>

\* line 125, the one connection.commit() after the loop; on psycopg2.Error
\* lines 126-129.
BCommit ==
    /\ pc = "b_commit"
    /\ \/ /\ table' = CommitRows(table, txn.rows)
          /\ Log("commit")
          /\ batchLog' = Append(batchLog, "commit")
          /\ UNCHANGED <<exc, failure>>
       \/ /\ events' = events \o <<"rollback">>
          /\ batchLog' = batchLog \o <<"commit_failed", "rollback">>
          /\ Raise(Exc("DatabaseError", "Batch execution failed"))
          /\ UNCHANGED table
    /\ txn' = NoTxn
    /\ pc' = "b_release"
    /\ UNCHANGED <<otherVars, envVars, job_status, result, poolVars, tableExists, api_response,
                   ingestVars, summaries, batchStart, ingestHist>>

\* lines 130-132, the finally.
BRelease ==
    /\ pc = "b_release"
    /\ IF connection # 0
       THEN /\ inner' = ReleaseConnection(inner, connection)
            /\ Log("putconn")
            /\ txn' = NoTxn
       ELSE UNCHANGED <<inner, events, txn>>
    /\ connection' = 0
    /\ pc' = "inner_exit"
    /\ UNCHANGED <<otherVars, envVars, jobVars, outer, tableExists, table, api_response, ingestVars,
                   summaries, failure, batchHist, ingestHist>>

\* __exit__ (line 145) of the manager of line 69: close_pool (lines
\* 135-138).  Then lines 71-72 (the count), or the exception goes on: a
\* DatabaseError through lines 73-75, which log and re-raise it.
InnerExit ==
    /\ pc = "inner_exit"
    /\ inner' = ClosePool(inner)
    /\ Log("pool_close")
    /\ IF exc = NoExc
       THEN /\ records_inserted' = Len(data_to_insert)
            /\ pc' = "ingest_return"
       ELSE /\ pc' = "outer_exit"
            /\ UNCHANGED records_inserted
    /\ UNCHANGED <<otherVars, envVars, jobVars, outer, connection, dbVars, api_response,
                   data_to_insert, pos, summaries, failure, batchHist, ingestHist>>

\* line 78 returns records_inserted; line 123 drops it; lines 124-125.
IngestReturn ==
    /\ pc = "ingest_return"
    /\ job_status' = "SUCCESS"
    /\ ingestedOk' = TRUE
    /\ prevTable' = table
    /\ pc' = "outer_exit"
    /\ UNCHANGED <<otherVars, envVars, result, exc, poolVars, dbVars, api_response, ingestVars,
                   events, summaries, failure, batchHist, repeat>>

(***************************************************************************)
(* run_data_collection_job, leaving the with block, lines 127-148.         *)
(***************************************************************************)
\* __exit__ (line 145) of the manager of line 95: close_pool closes every
\* connection of the pool and drops the pool (lines 135-138).
OuterExit ==
    /\ pc = "outer_exit"
    /\ outer' = ClosePool(outer)
    /\ Log("pool_close")
    /\ pc' = IF exc # NoExc THEN "except" ELSE "finally"
    /\ UNCHANGED <<otherVars, envVars, jobVars, inner, connection, dbVars, api_response, ingestVars,
                   summaries, failure, batchHist, ingestHist>>

\* Mutant: the handler logs the exception and returns nothing.
ExceptSwallows ==
    /\ pc = "except"
    /\ IF IsException(exc)
       THEN /\ job_status' = "FAILED"
            /\ exc' = NoExc
            /\ UNCHANGED result
       ELSE UNCHANGED <<job_status, result, exc>>
    /\ pc' = "finally"
    /\ UNCHANGED <<otherVars, envVars, poolVars, dbVars, api_response, ingestVars, events, summaries,
                   failure, batchHist, ingestHist>>

\* Mutant: the handler logs a closing summary of its own.
ExceptLogsSummary ==
    /\ pc = "except"
    /\ IF IsException(exc)
       THEN /\ job_status' = "FAILED"
            /\ result' = ErrorResult(exc.msg)
            /\ exc' = NoExc
            /\ Log("summary")
            /\ summaries' = Append(summaries, "FAILED")
       ELSE UNCHANGED <<job_status, result, exc, events, summaries>>
    /\ pc' = "finally"
    /\ UNCHANGED <<otherVars, envVars, poolVars, dbVars, api_response, ingestVars,
                   failure, batchHist, ingestHist>>

\* lines 131-134, `except Exception as e`: the job returns status 500 and
\* str(e).  SystemExit is no Exception and goes on.  (Nothing of the try
\* block imports, so the `except ImportError` of line 127 never matches.)
Except ==
    /\ pc = "except"
    /\ IF IsException(exc)
       THEN /\ job_status' = "FAILED"
            /\ result' = ErrorResult(exc.msg)
            /\ exc' = NoExc
       ELSE UNCHANGED <<job_status, result, exc>>
    /\ pc' = "finally"
    /\ UNCHANGED <<otherVars, envVars, poolVars, dbVars, api_response, ingestVars, events, summaries,
                   failure, batchHist, ingestHist>>

\* lines 135-148: the finally logs the closing summary with job_status; then
\* the pending return or exception goes on, or line 148 returns status 200.
Finally ==
    /\ pc = "finally"
    /\ Log("summary")
    /\ summaries' = Append(summaries, job_status)
    /\ result' = IF exc # NoExc THEN NoResult
                 ELSE IF result # NoResult THEN result
                 ELSE SuccessResult
    /\ pc' = "done"
    /\ UNCHANGED <<otherVars, envVars, job_status, exc, poolVars, dbVars, api_response, ingestVars,
                   failure, batchHist, ingestHist>>

Next ==
    \/ Start
    \/ CheckKey
    \/ OuterEnter
    \/ OuterInit
    \/ QGetConn
    \/ QExecute
    \/ QCommit
    \/ QRelease
    \/ Fetch
    \/ CheckError
    \/ Collect
    \/ InnerEnter
    \/ BGetConn
    \/ BExecute
    \/ BCommit
    \/ BRelease
    \/ InnerExit
    \/ IngestReturn
    \/ OuterExit
    \/ Except
    \/ Finally

Spec == Init /\ [][Next]_vars

(***************************************************************************)
(* Any sequence of calls on one PostgresManager (posgres_pool.py lines     *)
(* 56-132): get_connection, release_connection of any connection, and the  *)
(* two execute methods, each with its failures.                            *)
(***************************************************************************)
\* get_connection (lines 61-69).  The pool is created on first use, which
\* can fail (lines 53-54); getconn() of an exhausted pool raises; when
\* cursor() raises the connection stays checked out.
MgrGetConnection ==
    /\ \/ /\ ~mgr.live
          /\ lastCall' = "init_failed"
          /\ UNCHANGED <<mgr, outstanding>>
       \/ LET g == GetConn(Ensured(mgr))
          IN /\ mgr' = g.pool
             /\ IF g.ok
                THEN /\ outstanding' = outstanding + 1
                     /\ \/ lastCall' = "got"
                        \/ lastCall' = "cursor_failed"
                ELSE /\ lastCall' = "exhausted"
                     /\ UNCHANGED outstanding
    /\ UNCHANGED <<jobState, overlapVars>>

\* release_connection(c) (lines 75-76), of a connection that is checked out
\* or of one that is not (released before, or never acquired): putconn
\* refuses the latter, and without a pool nothing happens.
MgrReleaseConnection ==
    /\ \E c \in 1..max_connections :
          /\ mgr' = ReleaseConnection(mgr, c)
          /\ outstanding' = IF mgr.live /\ c \in mgr.used
                            THEN outstanding - 1 ELSE outstanding
          /\ lastCall' = IF ~mgr.live THEN "no_pool"
                         ELSE IF c \in mgr.used THEN "released" ELSE "refused"
    /\ UNCHANGED <<jobState, overlapVars>>

\* execute_query / execute_batch (lines 88-112, 118-132) as one call: the
\* connection acquired at line 90 / 120 is released in the finally, whether
\* the statement failed or not; when get_connection raised, `connection` is
\* None and nothing is released.
MgrExecute ==
    /\ \/ /\ ~mgr.live
          /\ lastCall' = "init_failed"
          /\ UNCHANGED <<mgr, outstanding>>
       \/ LET g == GetConn(Ensured(mgr))
          IN IF ~g.ok
             THEN /\ mgr' = g.pool
                  /\ lastCall' = "exhausted"
                  /\ UNCHANGED outstanding
             ELSE \/ /\ mgr' = g.pool
                     /\ outstanding' = outstanding + 1
                     /\ lastCall' = "cursor_failed"
                  \/ /\ mgr' = ReleaseConnection(g.pool, g.conn)
                     /\ UNCHANGED outstanding
                     /\ \/ lastCall' = "executed"
                        \/ lastCall' = "statement_failed"
    /\ UNCHANGED <<jobState, overlapVars>>

NextPool ==
    \/ MgrGetConnection
    \/ MgrReleaseConnection
    \/ MgrExecute

SpecPool == Init /\ [][NextPool]_vars

(***************************************************************************)
(* Overlapping invocations of run_data_collection_job (concurrent HTTP     *)
(* triggers): the steps of each that touch a pool, interleaved.            *)
(***************************************************************************)
\* Mutant: the managers share the pools of the first invocation.
ManagerPoolShared(i, s) == <<1, s>>

\* `with PostgresManager() as ...` (script.py lines 95 and 69) constructs a
\* manager per call, and __init__ (line 36) gives each its own
\* connection_pool: the pool invocation i uses in scope s.
ManagerPool(i, s) == <<i, s>>

Scope(label) == IF label \in {"i_get", "i_put", "i_exit"} THEN "inner" ELSE "outer"

Step(i, label) ==
    /\ ipc' = [ipc EXCEPT ![i] = label]
    /\ actor' = i

\* script.py lines 95-96: the manager of the run and its pool; the
\* constructor or the pool can fail.
OvStart(i) ==
    /\ ipc[i] = "idle"
    /\ \/ /\ pools' = [pools EXCEPT ![ManagerPool(i, "outer")] = NewPool]
          /\ Step(i, "o_get")
       \/ /\ Step(i, "done")
          /\ UNCHANGED pools
    /\ UNCHANGED <<jobState, mgrVars, iconn>>

\* get_connection inside execute_query / execute_batch: a connection of the
\* invocation's own manager; when getconn() or cursor() raises the
\* invocation holds none.
OvGet(i) ==
    /\ ipc[i] \in {"o_get", "i_get"}
    /\ LET id == ManagerPool(i, Scope(ipc[i]))
           g == GetConn(Ensured(pools[id]))
           out == IF ipc[i] = "o_get" THEN "o_exit" ELSE "i_exit"
       IN /\ pools' = [pools EXCEPT ![id] = g.pool]
          /\ IF g.ok
             THEN \/ /\ iconn' = [iconn EXCEPT ![i] = [pool |-> id, conn |-> g.conn]]
                     /\ Step(i, IF ipc[i] = "o_get" THEN "o_put" ELSE "i_put")
                  \/ /\ Step(i, out)
                     /\ UNCHANGED iconn
             ELSE /\ Step(i, out)
                  /\ UNCHANGED iconn
    /\ UNCHANGED <<jobState, mgrVars>>

\* The finally of execute_query / execute_batch: release_connection on the
\* manager that acquired.  After the CREATE TABLE the run goes on to
\* insert_crypto_data or, on a failure or without records, to the end.
OvPut(i) ==
    /\ ipc[i] \in {"o_put", "i_put"}
    /\ LET id == ManagerPool(i, Scope(ipc[i]))
       IN pools' = [pools EXCEPT ![id] = ReleaseConnection(@, iconn[i].conn)]
    /\ iconn' = [iconn EXCEPT ![i] = NoConn]
    /\ IF ipc[i] = "i_put"
       THEN Step(i, "i_exit")
       ELSE \/ Step(i, "i_enter")
            \/ Step(i, "o_exit")
    /\ UNCHANGED <<jobState, mgrVars>>

\* script.py line 69: the manager of insert_crypto_data and its pool.
OvInnerEnter(i) ==
    /\ ipc[i] = "i_enter"
    /\ \/ /\ pools' = [pools EXCEPT ![ManagerPool(i, "inner")] = NewPool]
          /\ Step(i, "i_get")
       \/ /\ Step(i, "o_exit")
          /\ UNCHANGED pools
    /\ UNCHANGED <<jobState, mgrVars, iconn>>

\* __exit__ (line 145): close_pool of the manager whose block is left.
OvExit(i) ==
    /\ ipc[i] \in {"i_exit", "o_exit"}
    /\ LET id == ManagerPool(i, Scope(ipc[i]))
       IN pools' = [pools EXCEPT ![id] = ClosePool(@)]
    /\ Step(i, IF ipc[i] = "i_exit" THEN "o_exit" ELSE "done")
    /\ UNCHANGED <<jobState, mgrVars, iconn>>

NextOverlap ==
    \E i \in Invocations :
        \/ OvStart(i)
        \/ OvGet(i)
        \/ OvPut(i)
        \/ OvInnerEnter(i)
        \/ OvExit(i)

SpecOverlap == Init /\ [][NextOverlap]_vars

(***************************************************************************)
(* Properties.                                                             *)
(***************************************************************************)
Count(seq, e) == Cardinality({i \in 1..Len(seq) : seq[i] = e})
Occurs(seq, e) == \E i \in 1..Len(seq) : seq[i] = e
\* Every occurrence of e in seq comes after an occurrence of f.
Preceded(seq, e, f) ==
    \A i \in 1..Len(seq) : seq[i] = e => \E j \in 1..(i - 1) : seq[j] = f

\* execute_query has ended when the run is at line 116 or leaves the outer
\* with block; execute_batch has ended when the inner with block is left.
CallEnded == pc \in {"fetch", "outer_exit", "inner_exit"}

\* C1 (as claimed): when execute_query or execute_batch has ended, by any
\* exit path, no connection is checked out and every getconn has had its
\* release.
C1_ReleasedOnEveryPath ==
    CallEnded =>
        /\ outer.used = {}
        /\ inner.used = {}
        /\ Count(events, "putconn") = Count(events, "getconn")

Repeated(n, e) == [i \in 1..n |-> e]

\* C2: execute_batch is atomic.  While the batch runs nothing of it is in
\* the table; when it ends with an exception (a statement failed at any
\* position) the table is what it was when the batch began; when it ends
\* without one, the log of the batch is n statements followed by exactly one
\* commit, and every row of the batch has its key in the table.
C2_BatchAtomic ==
    /\ pc \in {"b_exec", "b_commit"} => table = batchStart
    /\ (pc = "inner_exit" /\ exc # NoExc) =>
          /\ table = batchStart
          /\ ~Occurs(batchLog, "commit")
    /\ (pc = "inner_exit" /\ exc = NoExc) =>
          /\ batchLog = Repeated(Len(data_to_insert), "execute") \o <<"commit">>
          /\ \A i \in 1..Len(data_to_insert) : HasKey(table, data_to_insert[i])

\* C2 witness: a batch of two rows with different keys whose second
\* statement failed, after the first had run.
C2_Witness ==
    /\ pc = "inner_exit"
    /\ Len(data_to_insert) = 2
    /\ RowKey(data_to_insert[1]) # RowKey(data_to_insert[2])
    /\ ~HasKey(batchStart, data_to_insert[1])
    /\ batchLog = <<"execute", "failed", "rollback">>

AfterIngest == {"ingest_return", "outer_exit", "except", "finally", "done"}

\* C3: ingest is idempotent.  When a run ingests the response that the last
\* ingest returned from, the table is, once this ingest has ended (however
\* it ends), what it was when that ingest returned.
C3_IngestIdempotent ==
    (repeat /\ pc \in AfterIngest) => table = prevTable

\* C3 witness: the second ingest of a response with records has returned.
C3_Witness ==
    /\ repeat
    /\ pc = "ingest_return"
    /\ Len(data_to_insert) = 2
    /\ Occurs(batchLog, "commit")
    /\ Len(table) > 0

\* C4 (as claimed): no exception leaves the loop of insert_crypto_data over
\* the entries, whatever the entries are.
C4_EntriesNeverRaise ==
    (Occurs(events, "fetch") /\ api_response.data = "list") =>
        failure.type # "AttributeError"

\* C5 (as claimed): the listings fetch comes before the CREATE TABLE
\* statement, which comes before the batch insert, and a run that fails on
\* a fetch error has executed no database statement.
C5_FetchBeforeTableEnsure ==
    /\ Preceded(events, "execute_ddl", "fetch")
    /\ Preceded(events, "execute_insert", "execute_ddl")
    /\ failure.type = "FetchError" =>
          ~Occurs(events, "execute_ddl") /\ ~Occurs(events, "execute_insert")

\* C5 (amended): the CREATE TABLE statement is executed and committed
\* before the listings fetch, which comes before every insert statement; a
\* run that fails on a fetch error has executed the CREATE TABLE statement
\* once and no insert.
C5_TableEnsureBeforeFetch ==
    /\ Preceded(events, "fetch", "execute_ddl")
    /\ Preceded(events, "fetch", "commit")
    /\ Preceded(events, "commit", "execute_ddl")
    /\ Preceded(events, "execute_insert", "fetch")
    /\ Count(events, "fetch") <= 1
    /\ failure.type = "FetchError" =>
          /\ Count(events, "execute_ddl") = 1
          /\ ~Occurs(events, "execute_insert")

\* C5 witness: a run has ended on a fetch error, after the CREATE TABLE.
C5_Witness ==
    /\ pc = "done"
    /\ failure.type = "FetchError"
    /\ job_status = "FAILED"
    /\ Occurs(events, "execute_ddl")

\* C6: without the API key the run stops before any network or database
\* action: no pool is created, nothing is fetched, no statement is executed
\* (the only step logged is the closing summary), and the run ends with
\* SystemExit instead of a result.
C6_NoKeyNoCalls ==
    (~api_key /\ pc \notin {"idle", "check_key"}) =>
        /\ \A i \in 1..Len(events) : events[i] = "summary"
        /\ outer = NoPool /\ inner = NoPool /\ connection = 0
        /\ txn = NoTxn
        /\ exc.type = "SystemExit"
        /\ result = NoResult

\* C6 witness: a run without the key has ended.
C6_Witness == ~api_key /\ pc = "done" /\ exc.type = "SystemExit"

\* C7: a run that met a failure after the API-key check (an error response,
\* or an exception of the pool manager or the pipeline) returns status 500
\* with the message of that failure.
C7_FailureReturns500 ==
    (pc = "done" /\ api_key /\ failure # NoExc) =>
        /\ result = ErrorResult(failure.msg)
        /\ result.code = 500
        /\ exc = NoExc

\* C7 witness: a run has ended after a DatabaseError of the batch.
C7_Witness ==
    /\ pc = "done"
    /\ failure = Exc("DatabaseError", "Batch execution failed")
    /\ result.code = 500

\* C8 (as claimed): the result of a successful run reports the count that
\* insert_crypto_data returned.
C8_ResultReportsCount ==
    (pc = "done" /\ result.code = 200) =>
        /\ "count" \in DOMAIN result.body
        /\ result.body.count = records_inserted

\* C8 (amended): a run without failure ends with job_status SUCCESS and
\* returns status 200 with the fixed body of line 148, which holds a status
\* and a message and no count, whatever insert_crypto_data returned.
C8_SuccessReturns200 ==
    (pc = "done" /\ failure = NoExc) =>
        /\ result.code = 200
        /\ result.body = [status |-> "success",
                          message |-> "Data collection job completed successfully"]
        /\ job_status = "SUCCESS"
        /\ records_inserted = Len(data_to_insert)

\* C8 witness: a successful run that inserted two records.
C8_Witness ==
    /\ pc = "done"
    /\ result.code = 200
    /\ records_inserted = 2
    /\ Len(table) = 2

\* The response of this run yields no record: it has no `data` array, or
\* none of its entries is appended.
MissingData ==
    /\ Occurs(events, "fetch")
    /\ ~HasError(api_response)
    /\ api_response.data # "list" \/ ProcessItems(api_response.items).data = <<>>

\* C9 (as claimed): the status is 200 only on success and 500 on any
\* failure, a response with missing data included.
C9_MissingDataIs500 ==
    (pc = "done" /\ exc = NoExc) =>
        /\ result.code \in {200, 500}
        /\ failure # NoExc => result.code = 500
        /\ MissingData => result.code = 500

\* The response of this run has no `data` key, or a `data` list each entry
\* of which the loop skips (the warning of line 57, or the logged error of
\* line 59).
AllSkipped ==
    /\ Occurs(events, "fetch")
    /\ ~HasError(api_response)
    /\ \/ api_response.data = "absent"
       \/ /\ api_response.data = "list"
          /\ \A i \in 1..Len(api_response.items) :
                ProcessItem(api_response.items[i]).out \in {"skip", "error"}

\* C9 (amended): the status is 500 exactly when the run met a fetch error
\* or an exception, and 200 otherwise.  A response without a `data` key, or
\* whose entries are all skipped by the loop, is no failure: the run returns
\* 200 and executes no insert.
C9_StatusFollowsFailure ==
    (pc = "done" /\ exc = NoExc) =>
        /\ result.code = IF failure = NoExc THEN 200 ELSE 500
        /\ AllSkipped =>
              /\ result.code = 200
              /\ records_inserted = 0
              /\ ~Occurs(events, "execute_insert")

\* C9 witness: a run whose response has no `data` key has returned 200.
C9_Witness ==
    /\ pc = "done"
    /\ Occurs(events, "fetch")
    /\ api_response = Response("", "absent", <<>>)
    /\ result.code = 200

\* C10: the closing summary is emitted exactly once in every run, as the
\* last step of the run: none before the run's finally, and when the run
\* has ended one summary, which is the last event.
C10_SummaryOnceAtEnd ==
    /\ pc \notin {"idle", "done"} => summaries = <<>> /\ ~Occurs(events, "summary")
    /\ pc = "done" =>
          /\ Len(summaries) = 1
          /\ Count(events, "summary") = 1
          /\ events[Len(events)] = "summary"

\* C10 witness: a run that raised an exception inside both with blocks has
\* ended.
C10_Witness ==
    /\ pc = "done"
    /\ failure.type = "TypeError"
    /\ Occurs(events, "execute_insert")
    /\ Len(summaries) = 1

\* C11: scoped teardown.  Once a `with PostgresManager()` block has been
\* left, by any path, its manager's close_pool has run: the pool is gone and
\* none of its connections is open.  When the run has ended both pools are
\* gone, every pool that was created has been closed, and no connection is
\* open.
C11_ScopedTeardown ==
    /\ pc \in {"ingest_return", "outer_exit"} =>
          inner = NoPool /\ OpenConns(inner) = {}
    /\ pc \in {"except", "finally", "done"} =>
          /\ outer = NoPool /\ inner = NoPool
          /\ OpenConns(outer) \cup OpenConns(inner) = {}
          /\ Count(events, "pool_close") = Count(events, "pool_init")

\* C11 witness: a run has ended after an exception inside the inner block,
\* both pools having been created.
C11_Witness ==
    /\ pc = "done"
    /\ Count(events, "pool_init") = 2
    /\ failure.type = "ConnectionError"
    /\ outer = NoPool /\ inner = NoPool

\* Entries of a `data` list that pass the validation of lines 44-55.
ValidCount(items) ==
    Cardinality({i \in 1..Len(items) : ProcessItem(items[i]).out = "append"})

\* insert_crypto_data has ended, in this run, on a response with a `data`
\* list.
IngestEnded ==
    /\ pc = "outer_exit"
    /\ Occurs(events, "fetch")
    /\ ~HasError(api_response)
    /\ api_response.data = "list"

\* The batch of this run failed: the pipeline's pool, its connection, a
\* statement or the commit raised.
BatchFailed == failure.type \in {"ConnectionError", "DatabaseError", "TypeError"}

\* C13 (as claimed): insert_crypto_data returns the number of entries that
\* passed validation (0 when none did), whatever rows were new, and raises
\* instead when the batch fails.
C13_ReturnsValidCount ==
    IngestEnded =>
        IF BatchFailed THEN exc # NoExc
        ELSE exc = NoExc /\ records_inserted = ValidCount(api_response.items)

IsPrefix(a, b) == Len(a) <= Len(b) /\ SubSeq(b, 1, Len(a)) = a

UniqueKeys(rows) ==
    \A i, j \in 1..Len(rows) : i # j => RowKey(rows[i]) # RowKey(rows[j])

\* C14: the table is append-only and first-write-wins.  Across all job runs
\* every step leaves the rows already persisted in place and unchanged (the
\* table before the step is a prefix of the table after it), and the table
\* never holds two rows with the same (name, symbol, last_updated).
C14_AppendOnlyFirstWriteWins ==
    /\ [][IsPrefix(table, table')]_vars
    /\ [](UniqueKeys(table))

\* C14 witness: a batch has been committed that held a row whose key was
\* already in the table with another price; the table still has the first
\* price.
C14_Witness ==
    /\ pc = "inner_exit"
    /\ exc = NoExc
    /\ \E i \in 1..Len(data_to_insert), j \in 1..Len(batchStart) :
          /\ RowKey(data_to_insert[i]) = RowKey(batchStart[j])
          /\ data_to_insert[i].price # batchStart[j].price
          /\ table[j] = batchStart[j]

\* insert_crypto_data has ended in this run (it returned or raised).
IngestOver ==
    /\ pc \in {"outer_exit", "except", "finally", "done"}
    /\ Occurs(events, "fetch")
    /\ ~HasError(api_response)

QueryFailed ==
    /\ exc.type = "DatabaseError"
    /\ exc.msg = "Query execution failed"
    /\ Occurs(events, "rollback")
    /\ ~Occurs(events, "commit")
    /\ txn = NoTxn

C18_SummaryAgreesWithOutcome ==
    pc = "done" =>
        (summaries[Len(summaries)] = "SUCCESS" <=> result.code = 200)

\* The entry has a name, a symbol, a USD price and a last_updated value.
AllFourPresent(item) ==
    /\ item.dict
    /\ item.quote = "dict"
    /\ \A v \in {item.name, item.symbol, item.price, item.last_updated} : v # PyNone

\* C19 (as claimed): an entry is in the batch exactly when name, symbol,
\* price and last_updated are all present, whatever their values (a price
\* of 0 included).
C19_PresentMeansIncluded ==
    (pc = "inner_enter" \/ pc = "ingest_return") =>
        Len(data_to_insert) =
            Cardinality({i \in 1..Len(api_response.items) :
                            AllFourPresent(api_response.items[i])})

\* Connections the run has checked out, and connections it holds open.
InUse == Cardinality(outer.used) + Cardinality(inner.used)
OpenCount == Cardinality(OpenConns(outer)) + Cardinality(OpenConns(inner))

\* C20 (as claimed): at every moment of a run at most one pool is live and
\* at most one connection is open or in use.
C20_OnePoolOneConnection ==
    /\ ~(outer.live /\ inner.live)
    /\ OpenCount <= 1

\* C20 (amended): at every moment of a run at most one connection is checked
\* out; the pool of insert_crypto_data is live only while the job's pool is
\* live too, so up to two pools are live and up to two connections open (the
\* job's, idle, and the batch's).
C20_OneConnectionInUse ==
    /\ InUse <= 1
    /\ inner.live => (outer.live /\ outer.used = {})
    /\ OpenCount <= 2
    /\ (pc \in {"idle", "done"}) => OpenCount = 0

\* C20 witness: the batch holds a connection of the inner pool while the
\* job's pool keeps its idle connection open.
C20_Witness ==
    /\ pc = "b_exec"
    /\ outer.live /\ inner.live
    /\ inner.used # {}
    /\ outer.idle # {}
    /\ OpenCount = 2

\* C12: the pool invariant.  Whatever the sequence of get_connection,
\* release_connection and execute calls on one manager, failing ones
\* included, the number of connections acquired and not released is between
\* 0 and max_connections, and it is the number the pool has checked out.
C12_OutstandingWithinBounds ==
    /\ 0 <= outstanding
    /\ outstanding <= max_connections
    /\ outstanding = Cardinality(mgr.used)
    /\ mgr.idle \cap mgr.used = {}

\* C12 witness: every connection is out and the pool has refused one more.
C12_Witness ==
    /\ outstanding = max_connections
    /\ lastCall = "exhausted"

\* The connection invocation i holds is one of its own pools, is still
\* checked out there, and is held by nobody else.
HoldsOwn(i) ==
    iconn[i] # NoConn =>
        /\ iconn[i].pool[1] = i
        /\ iconn[i].conn \in pools[iconn[i].pool].used
        /\ \A j \in Invocations \ {i} : iconn[j] # iconn[i]

\* C17: when invocations overlap, every step (acquire, release, teardown)
\* changes only pools of the invocation that takes it, and a connection an
\* invocation holds stays checked out in its own pool until that invocation
\* releases it: no other invocation uses, releases or closes it.
C17_InvocationsIsolated ==
    /\ [][\A p \in PoolIds : pools'[p] # pools[p] => p[1] = actor']_vars
    /\ [](\A i \in Invocations : HoldsOwn(i))

\* C17 witness: two invocations hold a connection each at the same time.
C17_Witness ==
    /\ iconn[1] # NoConn
    /\ iconn[2] # NoConn
    /\ ipc[1] = "i_put"
    /\ ipc[2] = "o_put"

=============================================================================
